---- MODULE Spec2Model ----
(***************************************************************************)
(* Model of the Verilog generator for multiplexer branch modules           *)
(* (vpr7_x2p/vpr/SRC/fpga_x2p/verilog/verilog_mux.cpp).                    *)
(*                                                                         *)
(* One pass of print_verilog_submodule_muxes is a short sequential program *)
(* whose position is pc.  Its inputs (the MuxLibrary, the CircuitLibrary,  *)
(* the pre-registered modules and whether the output file can be opened)   *)
(* are chosen by Init and never change.  Text written to the stream is a   *)
(* sequence of tokens; characters are their ASCII codes.                   *)
(***************************************************************************)
EXTENDS Integers, Sequences, FiniteSets, TLC

(* ------------------------------ bounds --------------------------------- *)
MaxMuxes == 2
MaxMuxSize == 3
MaxSramPorts == 2
MaxBranchInputs == 3

(* ------------------------------ state ---------------------------------- *)
VARIABLES
    mux_lib,          \* MuxLibrary: sequence of [circuit_model, mux_size, branch_graphs]
    circuit_lib,      \* CircuitLibrary: circuit model id -> attributes
    module_manager,   \* ModuleManager: sequence of [name, ports, children]; ModuleId = index
    fp,               \* state of the std::fstream: "unopened", "open", "failed", "closed"
    verilog_file,     \* text written through fp, in order
    file_names,       \* names of the files this pass has created
    reserved_blwl,    \* calls of try_update_sram_orgz_info_reserved_blwl, in order
    pc,               \* position of the pass
    mux_idx,          \* number of MuxLibrary entries entered so far
    branch_idx,       \* number of branches of the current entry handed to emission
    error,            \* "none", or the fatal condition that ended the pass
    first_run         \* when the pass is run a second time: the manager the first
                      \* run was entered with, and what the first run left behind

vars == <<mux_lib, circuit_lib, module_manager, fp, verilog_file,
          file_names, reserved_blwl, pc, mux_idx, branch_idx, error, first_run>>

(* ---------------------------- characters ------------------------------- *)
CHAR_0 == 48
CHAR_1 == 49
CHAR_z == 122

Min(S) == CHOOSE x \in S : \A y \in S : x <= y
Max(S) == CHOOSE x \in S : \A y \in S : y <= x

\* std::to_string of a size_t below 100: its decimal digits as characters
to_string(v) ==
    IF v < 10 THEN <<CHAR_0 + v>>
    ELSE <<CHAR_0 + (v \div 10), CHAR_0 + (v % 10)>>

\* std::string(n, c) where c is a size_t narrowed to char
string_fill(n, c) == [k \in 1..n |-> c % (2 ^ 8)]

(* ------------------------------ MuxGraph ------------------------------- *)
\* A graph is [num_inputs, num_outputs, num_levels, num_mems, edges]; inputs,
\* outputs and memory bits are numbered from 0; an edge is [in, out, mem, inv].
find_edges(g, i, o) == {e \in g.edges : e.in = i /\ e.out = o}

find_edge_mem(e) == e.mem

is_edge_use_inv_mem(e) == e.inv

\* the (input, output) pairs in the order of the two nested loops
GraphPairs(g) ==
    [p \in 1..(g.num_inputs * g.num_outputs) |->
        <<(p - 1) \div g.num_outputs, (p - 1) % g.num_outputs>>]

(* ---------------------------- ModuleManager ---------------------------- *)
INVALID == 0

find_module(mm, name) ==
    LET ids == {i \in 1..Len(mm) : mm[i].name = name}
    IN  IF ids = {} THEN INVALID ELSE Min(ids)

\* returns the manager and the id: the existing id when the name is registered
add_module(mm, name) ==
    IF find_module(mm, name) # INVALID
    THEN [mm |-> mm, id |-> find_module(mm, name)]
    ELSE [mm |-> Append(mm, [name |-> name, ports |-> <<>>, children |-> {}]),
          id |-> Len(mm) + 1]

add_port(mm, id, port, category) ==
    [mm EXCEPT ![id].ports =
        Append(@, [name |-> port.name, width |-> port.width, category |-> category])]

add_child_module(mm, parent, child) ==
    [mm EXCEPT ![parent].children = @ \cup {child}]

(* ------------------------------- naming -------------------------------- *)
generate_verilog_mux_branch_subckt_name(circuit_model, mux_size, num_inputs) ==
    <<"mux_basis", circuit_model, mux_size, num_inputs>>

tgate_model_name(circuit_model) == <<"tgate", circuit_model, 0, 0>>

(* ----------------------- structural branch body ------------------------ *)
\* variant of tgate_port_map that ignores the polarity of the edge
tgate_port_map_unswapped(g, pr) ==
    LET e == CHOOSE x \in find_edges(g, pr[1], pr[2]) : TRUE
    IN  [tgate_in0 |-> <<"in", pr[1]>>,
         tgate_out0 |-> <<"out", pr[2]>>,
         tgate_in1 |-> <<"mem", find_edge_mem(e)>>,
         tgate_in2 |-> <<"mem_inv", find_edge_mem(e)>>]

\* the port-to-port map of one pass-gate instance (lines 78-96): the gate's
\* input ports 0, 1, 2 and its output port 0, each wired to a one-bit slice
tgate_port_map(g, pr) ==
    LET e == CHOOSE x \in find_edges(g, pr[1], pr[2]) : TRUE
        cur_input_port == <<"in", pr[1]>>
        cur_output_port == <<"out", pr[2]>>
        cur_mem_port == <<"mem", find_edge_mem(e)>>
        cur_mem_inv_port == <<"mem_inv", find_edge_mem(e)>>
    IN  [tgate_in0 |-> cur_input_port,
         tgate_out0 |-> cur_output_port,
         tgate_in1 |-> IF is_edge_use_inv_mem(e) = FALSE
                       THEN cur_mem_port ELSE cur_mem_inv_port,
         tgate_in2 |-> IF is_edge_use_inv_mem(e) = FALSE
                       THEN cur_mem_inv_port ELSE cur_mem_port]

\* the pairs the nested loops reach before an assertion on the edge count stops
\* them, and of those the ones that have an edge
pairs_reached(g) ==
    LET pairs == GraphPairs(g)
        bad == {p \in 1..Len(pairs) :
                   Cardinality(find_edges(g, pairs[p][1], pairs[p][2])) > 1}
    IN  IF bad = {} THEN pairs ELSE SubSeq(pairs, 1, Min(bad) - 1)

edge_count_ok(g) ==
    \A p \in 1..Len(GraphPairs(g)) :
        Cardinality(find_edges(g, GraphPairs(g)[p][1], GraphPairs(g)[p][2])) <= 1

has_edge(g, pr) == find_edges(g, pr[1], pr[2]) # {}

connected_pairs(g) == SelectSeq(pairs_reached(g), LAMBDA pr : has_edge(g, pr))

\* the manager after the add_child_module calls of the first n instances
RECURSIVE add_child_calls(_, _, _, _)
add_child_calls(mm, parent, child, n) ==
    IF n = 0 THEN mm
    ELSE add_child_module(add_child_calls(mm, parent, child, n - 1), parent, child)

\* variant of manager_at_instance that records the child before the instance
\* is written
manager_at_instance_updated_first(mm, parent, child, k) ==
    add_child_calls(mm, parent, child, k)

\* lines 97-102: the manager the instance writer is called with for the k-th
\* instance; the add_child_module call of an instance follows its writing
manager_at_instance(mm, parent, child, k) ==
    add_child_calls(mm, parent, child, k - 1)

\* result of an emission step: the manager, the text written, and "ok" or the
\* fatal condition that stopped it; an instance token carries, with its port
\* map, the children of the parent in the manager its writer was called with
generate_verilog_cmos_mux_branch_body_structural(mm, attrs, tgate_name, module_id, g) ==
    LET tgate_module_id == find_module(mm, tgate_name)
        conn == connected_pairs(g)
        instances == [k \in 1..Len(conn) |->
                         [kind |-> "instance",
                          parent |-> mm[module_id].name,
                          child |-> mm[tgate_module_id].name,
                          children_of_parent |->
                              manager_at_instance(mm, module_id, tgate_module_id,
                                                  k)[module_id].children,
                          port_map |-> tgate_port_map(g, conn[k])]]
    IN  IF tgate_module_id = INVALID
        THEN [mm |-> mm, text |-> <<>>, status |-> "tgate_module_missing"]
        ELSE IF attrs.tgate_num_inputs # 3 \/ attrs.tgate_num_outputs # 1
        THEN [mm |-> mm, text |-> <<>>, status |-> "tgate_ports"]
        ELSE [mm |-> add_child_calls(mm, module_id, tgate_module_id, Len(conn)),
              text |-> <<[kind |-> "comment", what |-> "structural"]>> \o instances,
              status |-> IF edge_count_ok(g) THEN "ok" ELSE "edge_count"]

(* ----------------------- behavioral branch body ------------------------ *)
\* variant of case_code that sets the bit of an inverted edge like any other
case_code_unflipped(width, default_mem_val, e) ==
    [string_fill(width, default_mem_val) EXCEPT ![find_edge_mem(e) + 1] = CHAR_1]

\* the case literal of one edge (lines 150-160)
case_code(width, default_mem_val, e) ==
    [string_fill(width, default_mem_val) EXCEPT
        ![find_edge_mem(e) + 1] =
            IF is_edge_use_inv_mem(e) = FALSE THEN CHAR_1 ELSE CHAR_0]

case_item(g, default_mem_val, pr) ==
    LET e == CHOOSE x \in find_edges(g, pr[1], pr[2]) : TRUE
    IN  [kind |-> "case_item",
         width |-> g.num_mems,
         code |-> case_code(g.num_mems, default_mem_val, e),
         lhs |-> <<"out_reg">>,
         rhs |-> <<"in", pr[1]>>]

generate_verilog_cmos_mux_branch_body_behavioral(g, default_mem_val) ==
    LET conn == connected_pairs(g)
        items == [k \in 1..Len(conn) |-> case_item(g, default_mem_val, conn[k])]
        head == <<[kind |-> "comment", what |-> "behavioral"],
                  [kind |-> "reg", name |-> "out_reg", width |-> g.num_outputs],
                  [kind |-> "always", sensitivity |-> <<"in", "mem">>],
                  [kind |-> "case", on |-> "mem"]>>
        tail == <<[kind |-> "default", lhs |-> <<"out_reg">>,
                   width |-> g.num_outputs,
                   code |-> string_fill(g.num_outputs, CHAR_z)],
                  [kind |-> "endcase"],
                  [kind |-> "assign", lhs |-> "out", rhs |-> "out_reg"]>>
    IN  IF edge_count_ok(g)
        THEN [text |-> head \o items \o tail, status |-> "ok"]
        ELSE [text |-> head \o items, status |-> "edge_count"]

(* -------------------------- CMOS branch module ------------------------- *)
\* variant of non_mode_select_sram_ports that keeps the mode-select ports
all_sram_ports(attrs) == attrs.sram_ports

\* lines 251-259: the SRAM ports of the model that are not mode-select ports
non_mode_select_sram_ports(attrs) ==
    SelectSeq(attrs.sram_ports, LAMBDA port : port.mode_select = FALSE)

\* lines 220-240: the module and its ports (global ports of the pass gate, then
\* in, out, mem, mem_inv)
RECURSIVE add_global_ports(_, _, _)
add_global_ports(mm, id, ports) ==
    IF ports = <<>> THEN mm
    ELSE add_global_ports(add_port(mm, id, Head(ports), "global"), id, Tail(ports))

register_branch_module(mm, attrs, module_name, g) ==
    LET am == add_module(mm, module_name)
        m0 == add_global_ports(am.mm, am.id, attrs.tgate_global_ports)
        m1 == add_port(m0, am.id, [name |-> "in", width |-> g.num_inputs], "input")
        m2 == add_port(m1, am.id, [name |-> "out", width |-> g.num_outputs], "output")
        m3 == add_port(m2, am.id, [name |-> "mem", width |-> g.num_mems], "input")
        m4 == add_port(m3, am.id, [name |-> "mem_inv", width |-> g.num_mems], "input")
    IN  [mm |-> m4, id |-> am.id]

\* lines 245-265: the body in either style, after the declaration was written
branch_body(mm, attrs, tgate_name, module_id, g, use_structural_verilog) ==
    IF use_structural_verilog = TRUE
    THEN generate_verilog_cmos_mux_branch_body_structural(mm, attrs, tgate_name, module_id, g)
    ELSE LET ports == non_mode_select_sram_ports(attrs)
             mem_default_val == to_string(ports[1].default_value)
             body == generate_verilog_cmos_mux_branch_body_behavioral(g, mem_default_val[1])
         IN  IF Len(ports) # 1
             THEN [mm |-> mm, text |-> <<>>, status |-> "sram_port_count"]
             ELSE IF Len(mem_default_val) # 1
             THEN [mm |-> mm, text |-> <<>>, status |-> "default_value_length"]
             ELSE [mm |-> mm, text |-> body.text, status |-> body.status]

\* lines 220-268: register the module, write its declaration, body and end
emit_cmos_mux_branch_module(mm, attrs, tgate_name, module_name, g, structural) ==
    LET reg == register_branch_module(mm, attrs, module_name, g)
        decl == [kind |-> "module", name |-> module_name,
                 ports |-> reg.mm[reg.id].ports]
        body == branch_body(reg.mm, attrs, tgate_name, reg.id, g, structural)
    IN  [mm |-> body.mm,
         text |-> <<decl>> \o body.text \o
                  (IF body.status = "ok"
                   THEN <<[kind |-> "endmodule", name |-> module_name]>>
                   ELSE <<>>),
         status |-> body.status]

\* variant of generate_verilog_cmos_mux_branch_module without the check of the
\* number of levels
cmos_module_without_level_check(mm, attrs, tgate_name, module_name, g, structural) ==
    IF attrs.tgate_model_type = "GATE"
    THEN [mm |-> mm, text |-> <<>>,
          status |-> IF attrs.tgate_gate_type = "MUX2" THEN "ok" ELSE "gate_type"]
    ELSE IF g.num_outputs # 1
    THEN [mm |-> mm, text |-> <<>>, status |-> "num_outputs"]
    ELSE emit_cmos_mux_branch_module(mm, attrs, tgate_name, module_name, g, structural)

\* variant of generate_verilog_cmos_mux_branch_module without the skip of
\* logic-gate pass gates
cmos_module_without_gate_skip(mm, attrs, tgate_name, module_name, g, structural) ==
    IF g.num_outputs # 1
    THEN [mm |-> mm, text |-> <<>>, status |-> "num_outputs"]
    ELSE IF g.num_levels # 1
    THEN [mm |-> mm, text |-> <<>>, status |-> "num_levels"]
    ELSE emit_cmos_mux_branch_module(mm, attrs, tgate_name, module_name, g, structural)

generate_verilog_cmos_mux_branch_module(mm, attrs, tgate_name, module_name, g, structural) ==
    IF attrs.tgate_model_type = "GATE"
    THEN [mm |-> mm, text |-> <<>>,
          status |-> IF attrs.tgate_gate_type = "MUX2" THEN "ok" ELSE "gate_type"]
    ELSE IF g.num_outputs # 1
    THEN [mm |-> mm, text |-> <<>>, status |-> "num_outputs"]
    ELSE IF g.num_levels # 1
    THEN [mm |-> mm, text |-> <<>>, status |-> "num_levels"]
    ELSE emit_cmos_mux_branch_module(mm, attrs, tgate_name, module_name, g, structural)

(* --------------------------- technology dispatch ----------------------- *)
\* variant of generate_verilog_mux_branch_module whose RRAM case falls through
\* to the default case
dispatch_rram_falls_through(mm, attrs, circuit_model, mux_size, g) ==
    LET module_name ==
            generate_verilog_mux_branch_subckt_name(circuit_model, mux_size, g.num_inputs)
    IN  CASE attrs.design_tech_type = "CMOS" ->
                generate_verilog_cmos_mux_branch_module(
                    mm, attrs, tgate_model_name(circuit_model), module_name, g,
                    attrs.dump_structural_verilog)
          [] OTHER ->
                [mm |-> mm, text |-> <<>>, status |-> "design_tech"]

generate_verilog_mux_branch_module(mm, attrs, circuit_model, mux_size, g) ==
    LET module_name ==
            generate_verilog_mux_branch_subckt_name(circuit_model, mux_size, g.num_inputs)
    IN  CASE attrs.design_tech_type = "CMOS" ->
                generate_verilog_cmos_mux_branch_module(
                    mm, attrs, tgate_model_name(circuit_model), module_name, g,
                    attrs.dump_structural_verilog)
          [] attrs.design_tech_type = "RRAM" ->
                [mm |-> mm, text |-> <<>>, status |-> "ok"]
          [] OTHER ->
                [mm |-> mm, text |-> <<>>, status |-> "design_tech"]

(* ------------------------------- inputs -------------------------------- *)
SeqsUpTo(S, n) == UNION {[1..k -> S] : k \in 0..n}

\* an N:1 one-level graph: input i reaches the output under memory bit i
OneLevelGraph(n) ==
    [num_inputs |-> n, num_outputs |-> 1, num_levels |-> 1, num_mems |-> n,
     edges |-> {[in |-> i, out |-> 0, mem |-> i, inv |-> FALSE] : i \in 0..(n - 1)}]

\* a 2:1 tree node: one memory bit, the second input under its complement
TreeNodeGraph ==
    [num_inputs |-> 2, num_outputs |-> 1, num_levels |-> 1, num_mems |-> 1,
     edges |-> {[in |-> 0, out |-> 0, mem |-> 0, inv |-> FALSE],
                [in |-> 1, out |-> 0, mem |-> 0, inv |-> TRUE]}]

\* decomposition of a one-level N:1 multiplexer: the graph itself
OneLevelBranches(n) == <<OneLevelGraph(n)>>

\* decomposition of a tree-like N:1 multiplexer: one 2:1 branch per internal node
TreeBranches(n) == [k \in 1..(n - 1) |-> TreeNodeGraph]

\* what a defective elaboration hands over: a branch with two outputs or two levels
DefectiveBranches(n) ==
    {<<[OneLevelGraph(n) EXCEPT !.num_outputs = 2]>>,
     <<[OneLevelGraph(n) EXCEPT !.num_levels = 2]>>,
     <<OneLevelGraph(n), [OneLevelGraph(n) EXCEPT !.num_levels = 2]>>}

Decompositions(n) == {OneLevelBranches(n), TreeBranches(n)} \cup DefectiveBranches(n)

MuxEntries(models) ==
    UNION {{[circuit_model |-> m, mux_size |-> n, branch_graphs |-> b] :
               m \in models, b \in Decompositions(n)} : n \in 2..MaxMuxSize}

\* libraries of pairwise distinct entries
MuxLibraries(models) ==
    {lib \in SeqsUpTo(MuxEntries(models), MaxMuxes) :
        \A i, j \in 1..Len(lib) : i # j => lib[i] # lib[j]}

\* default values of SRAM ports: a bit, or a value that prints with two digits
DefaultValues == {0, 1, 10}

SramPorts ==
    {[mode_select |-> TRUE, default_value |-> 0]} \cup
    {[mode_select |-> FALSE, default_value |-> v] : v \in DefaultValues}

\* the pass-gate sub-model: a transmission gate, a MUX2 gate or another gate
TgateKinds == {<<"PASSGATE", "NONE">>, <<"GATE", "MUX2">>, <<"GATE", "AND">>}

GlobalPort == [name |-> "vdd", width |-> 1]

ModelAttrs(sramCfgs, tgateInputs, globalCfgs) ==
    {[design_tech_type |-> t,
      dump_structural_verilog |-> s,
      tgate_model_type |-> k[1],
      tgate_gate_type |-> k[2],
      tgate_num_inputs |-> ni,
      tgate_num_outputs |-> 1,
      tgate_global_ports |-> gp,
      sram_ports |-> sp] :
        t \in {"CMOS", "RRAM", "NUM_TYPES"}, s \in BOOLEAN, k \in TgateKinds,
        ni \in tgateInputs, gp \in globalCfgs, sp \in sramCfgs}

\* every configuration of at most MaxSramPorts SRAM ports
AllSramCfgs == SeqsUpTo(SramPorts, MaxSramPorts)

\* the configurations a pass over a whole library is run with
PassSramCfgs ==
    {<<>>,
     <<[mode_select |-> FALSE, default_value |-> 0]>>,
     <<[mode_select |-> FALSE, default_value |-> 1]>>,
     <<[mode_select |-> FALSE, default_value |-> 0],
       [mode_select |-> FALSE, default_value |-> 1]>>}

CircuitModels == {1}

\* the modules registered before the pass: the pass gates of some of the models
TgateModule(m) == [name |-> tgate_model_name(m), ports |-> <<>>, children |-> {}]

InitialManagers == {<<>>, <<TgateModule(1)>>}

\* one-output, one-level graphs with any edges: each input has no edge, or one
\* edge under any memory bit in either polarity
EdgeChoices(m) == {<<>>} \cup {<<b, v>> : b \in 0..(m - 1), v \in BOOLEAN}

BranchGraphs ==
    UNION {UNION {{[num_inputs |-> n, num_outputs |-> 1, num_levels |-> 1,
                    num_mems |-> m,
                    edges |-> {[in |-> i, out |-> 0, mem |-> f[i][1], inv |-> f[i][2]] :
                                  i \in {j \in 0..(n - 1) : f[j] # <<>>}}] :
                      f \in [0..(n - 1) -> EdgeChoices(m)]} :
                  m \in 1..MaxBranchInputs} :
           n \in 1..MaxBranchInputs}

muxes_verilog_file_name == "muxes.v"

(* ----------------------------- the pass -------------------------------- *)
Start ==
    /\ fp = "unopened"
    /\ verilog_file = <<>>
    /\ file_names = {}
    /\ reserved_blwl = <<>>
    /\ pc = "open"
    /\ mux_idx = 0
    /\ branch_idx = 0
    /\ error = "none"
    /\ first_run = [done |-> FALSE, manager_at_entry |-> module_manager,
                    verilog_file |-> <<>>, module_manager |-> <<>>,
                    error |-> "none"]

\* a pass over any library, for a model of any technology and style
Init ==
    /\ mux_lib \in MuxLibraries(CircuitModels)
    /\ circuit_lib \in [CircuitModels -> ModelAttrs(PassSramCfgs, {3}, {<<>>})]
    /\ module_manager \in InitialManagers
    /\ Start

\* a pass over a library of one multiplexer, for a model with any attributes
InitDispatch ==
    /\ mux_lib \in {<<e>> : e \in MuxEntries(CircuitModels)}
    /\ circuit_lib \in [CircuitModels ->
                          ModelAttrs(AllSramCfgs, {2, 3}, {<<>>, <<GlobalPort>>})]
    /\ module_manager \in InitialManagers
    /\ Start

\* a pass over one one-level multiplexer with any edges, for a CMOS model whose
\* pass gate is a registered transmission gate
InitBody ==
    /\ mux_lib \in {<<[circuit_model |-> 1, mux_size |-> g.num_inputs,
                       branch_graphs |-> <<g>>]>> : g \in BranchGraphs}
    /\ circuit_lib \in
         [CircuitModels ->
            {a \in ModelAttrs({<<p>> : p \in SramPorts}, {3}, {<<>>}) :
                /\ a.design_tech_type = "CMOS"
                /\ a.tgate_model_type = "PASSGATE"
                /\ a.sram_ports[1].default_value < 10
                /\ a.sram_ports[1].mode_select = FALSE}]
    /\ module_manager = <<TgateModule(1)>>
    /\ Start

\* lines 325-342: open the staging file, check the stream, write the header
OpenFile ==
    /\ pc = "open"
    /\ \E opened \in BOOLEAN :
         IF opened
         THEN /\ fp' = "open"
              /\ file_names' = file_names \cup {<<muxes_verilog_file_name, ".bak">>}
              /\ verilog_file' = <<[kind |-> "file_header", usage |-> "Multiplexers"],
                                   [kind |-> "include_defines"]>>
              /\ pc' = "muxes"
              /\ error' = "none"
         ELSE /\ fp' = "failed"
              /\ file_names' = file_names
              /\ verilog_file' = verilog_file
              /\ pc' = "aborted"
              /\ error' = "file_handler"
    /\ UNCHANGED <<first_run, mux_lib, circuit_lib, module_manager, reserved_blwl, mux_idx, branch_idx>>

\* lines 345-349: enter the next MuxLibrary entry and decompose its graph
NextMux ==
    /\ pc = "muxes"
    /\ mux_idx < Len(mux_lib)
    /\ mux_idx' = mux_idx + 1
    /\ branch_idx' = 0
    /\ pc' = IF Len(mux_lib[mux_idx + 1].branch_graphs) = 0 THEN "muxes" ELSE "branches"
    /\ UNCHANGED <<first_run, mux_lib, circuit_lib, module_manager, fp, verilog_file, file_names,
                   reserved_blwl, error>>

\* variant of BranchStep that takes the branches of an entry in no fixed order
BranchStepAnyOrder ==
    /\ pc = "branches"
    /\ \E k \in 1..Len(mux_lib[mux_idx].branch_graphs) :
         LET entry == mux_lib[mux_idx]
             g == entry.branch_graphs[k]
             r == generate_verilog_mux_branch_module(
                      module_manager, circuit_lib[entry.circuit_model],
                      entry.circuit_model, entry.mux_size, g)
         IN  /\ module_manager' = r.mm
             /\ verilog_file' = verilog_file \o r.text
             /\ branch_idx' = branch_idx + 1
             /\ error' = IF r.status = "ok" THEN "none" ELSE r.status
             /\ pc' = IF r.status # "ok" THEN "aborted"
                      ELSE IF branch_idx + 1 = Len(entry.branch_graphs) THEN "muxes"
                      ELSE "branches"
    /\ UNCHANGED <<first_run, mux_lib, circuit_lib, fp, file_names, reserved_blwl, mux_idx>>

\* lines 351-354: hand the next branch graph of the current entry to emission
BranchStep ==
    /\ pc = "branches"
    /\ LET entry == mux_lib[mux_idx]
           g == entry.branch_graphs[branch_idx + 1]
           r == generate_verilog_mux_branch_module(
                    module_manager, circuit_lib[entry.circuit_model],
                    entry.circuit_model, entry.mux_size, g)
       IN  /\ module_manager' = r.mm
           /\ verilog_file' = verilog_file \o r.text
           /\ branch_idx' = branch_idx + 1
           /\ error' = IF r.status = "ok" THEN "none" ELSE r.status
           /\ pc' = IF r.status # "ok" THEN "aborted"
                    ELSE IF branch_idx + 1 = Len(entry.branch_graphs) THEN "muxes"
                    ELSE "branches"
    /\ UNCHANGED <<first_run, mux_lib, circuit_lib, fp, file_names, reserved_blwl, mux_idx>>

\* line 360: close the stream once the library is consumed
CloseFile ==
    /\ pc = "muxes"
    /\ mux_idx = Len(mux_lib)
    /\ fp' = "closed"
    /\ pc' = "reserve"
    /\ UNCHANGED <<first_run, mux_lib, circuit_lib, module_manager, verilog_file, file_names,
                   reserved_blwl, mux_idx, branch_idx, error>>

\* MuxLibrary::max_mux_size
max_mux_size(lib) ==
    IF Len(lib) = 0 THEN 0 ELSE Max({lib[i].mux_size : i \in 1..Len(lib)})

\* variant of reserved_blwl_args that takes the size of the last multiplexer
reserved_blwl_args_of_last(lib) ==
    IF Len(lib) = 0 THEN <<0, 0>>
    ELSE <<lib[Len(lib)].mux_size, lib[Len(lib)].mux_size>>

\* lines 369-370: the arguments of the reserved bit-line/word-line update
reserved_blwl_args(lib) == <<max_mux_size(lib), max_mux_size(lib)>>

\* variant of UpdateReservedBlwl that runs before the library is consumed
UpdateReservedBlwlEarly ==
    /\ pc = "muxes"
    /\ reserved_blwl = <<>>
    /\ reserved_blwl' = Append(reserved_blwl, reserved_blwl_args(mux_lib))
    /\ UNCHANGED <<first_run, mux_lib, circuit_lib, module_manager, fp, verilog_file, file_names,
                   pc, mux_idx, branch_idx, error>>

UpdateReservedBlwl ==
    /\ pc = "reserve"
    /\ reserved_blwl' = Append(reserved_blwl, reserved_blwl_args(mux_lib))
    /\ pc' = "done"
    /\ UNCHANGED <<first_run, mux_lib, circuit_lib, module_manager, fp, verilog_file, file_names,
                   mux_idx, branch_idx, error>>

Next == OpenFile \/ NextMux \/ BranchStep \/ CloseFile \/ UpdateReservedBlwl

Spec == Init /\ [][Next]_vars

SpecDispatch == InitDispatch /\ [][Next]_vars

SpecBody == InitBody /\ [][Next]_vars

\* the caller runs the pass a second time on the same MuxLibrary and
\* CircuitLibrary, with the ModuleManager the first run was entered with
RunAgain ==
    /\ pc \in {"done", "aborted"}
    /\ first_run.done = FALSE
    /\ first_run' = [first_run EXCEPT !.done = TRUE,
                                      !.verilog_file = verilog_file,
                                      !.module_manager = module_manager,
                                      !.error = error]
    /\ module_manager' = first_run.manager_at_entry
    /\ fp' = "unopened"
    /\ verilog_file' = <<>>
    /\ file_names' = {}
    /\ reserved_blwl' = <<>>
    /\ pc' = "open"
    /\ mux_idx' = 0
    /\ branch_idx' = 0
    /\ error' = "none"
    /\ UNCHANGED <<mux_lib, circuit_lib>>

NextTwoRuns ==
    OpenFile \/ NextMux \/ BranchStep \/ CloseFile \/ UpdateReservedBlwl \/ RunAgain

SpecTwoRuns == Init /\ [][NextTwoRuns]_vars

(* ------------------------- the pass, observed -------------------------- *)
CurEntry == mux_lib[mux_idx]

CurAttrs == circuit_lib[CurEntry.circuit_model]

\* the branch graph the next BranchStep hands to emission (when pc = "branches")
CurGraph == CurEntry.branch_graphs[branch_idx + 1]

\* the branch graph the last BranchStep handed to emission (when branch_idx > 0)
LastGraph == CurEntry.branch_graphs[branch_idx]

Finished == pc \in {"done", "aborted"}

ModuleTokens == SelectSeq(verilog_file, LAMBDA t : t.kind = "module")

BadShape(g) == g.num_outputs # 1 \/ g.num_levels # 1

NothingEmitted == module_manager' = module_manager /\ verilog_file' = verilog_file

(* ------------------------------ claims --------------------------------- *)

\* C1: no two module definitions of the output carry the same module name (a
\* branch whose name is already registered is skipped).
C1_OneDefinitionPerName ==
    \A i, j \in 1..Len(ModuleTokens) :
        ModuleTokens[i].name = ModuleTokens[j].name => i = j

\* C2 as stated: a branch graph with other than one output or one level, handed
\* to emission for any circuit model, aborts generation and registers and writes
\* nothing.
C2_BadShapeAlwaysAborts ==
    [][(pc = "branches" /\ BadShape(CurGraph))
          => (pc' = "aborted" /\ NothingEmitted)]_vars

\* C2 amended: such a branch graph never registers a module nor writes text, and
\* for a CMOS model whose pass gate is not a logic gate it aborts generation with
\* the structural-invariant violation.
C2_BadShapeEmitsNothing ==
    [][(pc = "branches" /\ BadShape(CurGraph))
          => /\ NothingEmitted
             /\ (CurAttrs.design_tech_type = "CMOS" /\ CurAttrs.tgate_model_type # "GATE")
                   => (pc' = "aborted" /\ error' \in {"num_outputs", "num_levels"})]_vars

C2_Witness ==
    /\ pc = "aborted"
    /\ error = "num_levels"
    /\ branch_idx = 2
    /\ BadShape(LastGraph)

\* C3: in structural mode the body has one pass-gate instance per (input, output)
\* pair with an edge; the instance of an edge wires the gate's data input to
\* in[input], its output to out[output] and its two control inputs to
\* (mem[m], mem_inv[m]), or to (mem_inv[m], mem[m]) when the edge is inverted.
InstanceTokens == SelectSeq(verilog_file, LAMBDA t : t.kind = "instance")

EdgePairs(g) ==
    {pr \in (0..(g.num_inputs - 1)) \X (0..(g.num_outputs - 1)) :
        \E e \in g.edges : e.in = pr[1] /\ e.out = pr[2]}

WiredFor(t, e) ==
    /\ t.port_map.tgate_in0 = <<"in", e.in>>
    /\ t.port_map.tgate_out0 = <<"out", e.out>>
    /\ e.inv = FALSE => /\ t.port_map.tgate_in1 = <<"mem", e.mem>>
                        /\ t.port_map.tgate_in2 = <<"mem_inv", e.mem>>
    /\ e.inv = TRUE => /\ t.port_map.tgate_in1 = <<"mem_inv", e.mem>>
                       /\ t.port_map.tgate_in2 = <<"mem", e.mem>>

\* the single branch of a one-entry library has been emitted without a fatal error
OneBranchEmitted ==
    /\ Len(mux_lib) = 1
    /\ mux_idx = 1
    /\ branch_idx = 1
    /\ Len(CurEntry.branch_graphs) = 1
    /\ pc # "aborted"
    /\ Len(ModuleTokens) = 1

C3_StructuralInstances ==
    (OneBranchEmitted /\ CurAttrs.dump_structural_verilog = TRUE)
        => /\ Len(InstanceTokens) = Cardinality(EdgePairs(LastGraph))
           /\ \A e \in LastGraph.edges :
                 \E k \in 1..Len(InstanceTokens) : WiredFor(InstanceTokens[k], e)

C3_Witness ==
    /\ OneBranchEmitted
    /\ CurAttrs.dump_structural_verilog = TRUE
    /\ Len(InstanceTokens) = 2
    /\ LastGraph.num_inputs = 3
    /\ \E e1, e2 \in LastGraph.edges : e1.inv = TRUE /\ e2.inv = FALSE /\ e1.mem = e2.mem

\* C4: in behavioral mode with default value d the case table has one entry per
\* edge: a literal of num_memory_bits characters, each the digit d except the one
\* of the edge's memory bit (the character at that index of the literal, counted
\* from its first), which is '1' (or '0' for an inverted edge), assigning
\* the edge's input to the output register; one default entry follows all of
\* them and drives every output bit to 'z'.
CaseItemAt(k) == verilog_file[k].kind = "case_item"

DefaultAt(k) == verilog_file[k].kind = "default"

LiteralFor(t, g, e, d) ==
    /\ t.width = g.num_mems
    /\ Len(t.code) = g.num_mems
    /\ \A b \in 1..g.num_mems :
          t.code[b] = IF b = e.mem + 1
                      THEN (IF e.inv THEN CHAR_0 ELSE CHAR_1)
                      ELSE CHAR_0 + d
    /\ t.lhs = <<"out_reg">>
    /\ t.rhs = <<"in", e.in>>

C4_BehavioralCaseTable ==
    (OneBranchEmitted /\ CurAttrs.dump_structural_verilog = FALSE)
        => LET g == LastGraph
               d == CurAttrs.sram_ports[1].default_value
               items == {k \in 1..Len(verilog_file) : CaseItemAt(k)}
               defaults == {k \in 1..Len(verilog_file) : DefaultAt(k)}
           IN  /\ Cardinality(items) = Cardinality(g.edges)
               /\ \A e \in g.edges : \E k \in items : LiteralFor(verilog_file[k], g, e, d)
               /\ Cardinality(defaults) = 1
               /\ \A q \in defaults :
                     /\ \A k \in items : k < q
                     /\ verilog_file[q].code = [b \in 1..g.num_outputs |-> CHAR_z]

C4_Witness ==
    /\ OneBranchEmitted
    /\ CurAttrs.dump_structural_verilog = FALSE
    /\ CurAttrs.sram_ports[1].default_value = 1
    /\ LastGraph.num_mems = 3
    /\ Cardinality(LastGraph.edges) = 2
    /\ \E e \in LastGraph.edges : e.inv = TRUE
    /\ \E k \in 1..Len(verilog_file) :
          CaseItemAt(k) /\ verilog_file[k].code = <<CHAR_1, CHAR_0, CHAR_1>>

\* C5: a completed pass has called the reserved bit-line/word-line update with
\* the largest multiplexer size of the library as both arguments.
C5_ReservedLinesAreMaxSize ==
    pc = "done"
        => /\ Len(reserved_blwl) = 1
           /\ Len(mux_lib) > 0
                 => /\ reserved_blwl[1][1] = reserved_blwl[1][2]
                    /\ \E i \in 1..Len(mux_lib) : mux_lib[i].mux_size = reserved_blwl[1][1]
                    /\ \A i \in 1..Len(mux_lib) : mux_lib[i].mux_size <= reserved_blwl[1][1]

C5_Witness ==
    /\ pc = "done"
    /\ Len(mux_lib) = 2
    /\ mux_lib[1].mux_size > mux_lib[2].mux_size
    /\ reserved_blwl = <<<<mux_lib[1].mux_size, mux_lib[1].mux_size>>>>

\* C6: the reserved-line update is called only once every branch of every entry
\* has been processed and the stream closed, at most once, and never in a pass
\* that aborted.
C6_ReserveOnlyAfterAllMuxes ==
    /\ pc = "aborted" => reserved_blwl = <<>>
    /\ reserved_blwl # <<>>
          => /\ pc = "done"
             /\ Len(reserved_blwl) = 1
             /\ error = "none"
             /\ mux_idx = Len(mux_lib)
             /\ mux_idx > 0 => branch_idx = Len(CurEntry.branch_graphs)

C6_Witness ==
    /\ pc = "done"
    /\ Len(reserved_blwl) = 1
    /\ Len(mux_lib) = 2
    /\ Len(ModuleTokens) >= 2

\* C7: dispatch on the design technology: a CMOS model gets the body style its
\* structural-verilog flag selects; an RRAM model writes nothing, registers
\* nothing and lets the pass go on; any other value aborts generation.
BodyComments(text) == SelectSeq(text, LAMBDA t : t.kind = "comment")

StyleOf(flag) == IF flag THEN "structural" ELSE "behavioral"

C7_TechnologyDispatch ==
    [][pc = "branches"
          => /\ CurAttrs.design_tech_type = "CMOS"
                   => /\ \A k \in 1..Len(BodyComments(verilog_file')) :
                            BodyComments(verilog_file')[k].what =
                                StyleOf(CurAttrs.dump_structural_verilog)
                      /\ (pc' # "aborted" /\ verilog_file' # verilog_file)
                            => Len(BodyComments(verilog_file')) =
                                   Len(BodyComments(verilog_file)) + 1
             /\ CurAttrs.design_tech_type = "RRAM"
                   => (NothingEmitted /\ pc' # "aborted")
             /\ CurAttrs.design_tech_type \notin {"CMOS", "RRAM"}
                   => (NothingEmitted /\ pc' = "aborted" /\ error' = "design_tech")]_vars

C7_Witness ==
    /\ pc = "branches"
    /\ branch_idx = 1
    /\ CurAttrs.design_tech_type = "RRAM"
    /\ module_manager = <<>>
    /\ Len(verilog_file) = 2

\* C8 as stated: a model whose pass gate is a MUX2 gate is skipped without error,
\* registering and writing nothing, whatever its design technology and style.
IsMux2Gate(attrs) == attrs.tgate_model_type = "GATE" /\ attrs.tgate_gate_type = "MUX2"

C8_Mux2SkippedForAnyTechnology ==
    [][(pc = "branches" /\ IsMux2Gate(CurAttrs))
          => (NothingEmitted /\ pc' # "aborted")]_vars

\* C8 amended: such a model registers and writes nothing whatever its technology
\* and style, and is skipped without error when its technology is CMOS or RRAM;
\* with any other technology value generation aborts.
C8_Mux2SkippedForKnownTechnology ==
    [][(pc = "branches" /\ IsMux2Gate(CurAttrs))
          => /\ NothingEmitted
             /\ pc' # "aborted" <=> CurAttrs.design_tech_type \in {"CMOS", "RRAM"}]_vars

C8_Witness ==
    /\ pc = "muxes"
    /\ branch_idx = 1
    /\ IsMux2Gate(CurAttrs)
    /\ CurAttrs.design_tech_type = "CMOS"
    /\ BadShape(LastGraph) = FALSE
    /\ Len(verilog_file) = 2

\* C9 as stated: behavioral emission proceeds exactly when the non-mode-select
\* SRAM ports of the model carry one distinct default value (taken here over
\* models whose default values are bits).
BehavioralCase ==
    /\ pc = "branches"
    /\ CurAttrs.design_tech_type = "CMOS"
    /\ CurAttrs.tgate_model_type # "GATE"
    /\ CurAttrs.dump_structural_verilog = FALSE
    /\ BadShape(CurGraph) = FALSE

PlainSramPorts(attrs) ==
    {i \in 1..Len(attrs.sram_ports) : attrs.sram_ports[i].mode_select = FALSE}

DistinctDefaults(attrs) ==
    {attrs.sram_ports[i].default_value : i \in PlainSramPorts(attrs)}

BodyCompleted ==
    /\ pc' # "aborted"
    /\ Len(verilog_file') > Len(verilog_file)
    /\ verilog_file'[Len(verilog_file')].kind = "endmodule"

C9_ProceedsIffOneDistinctDefault ==
    [][(BehavioralCase /\ DistinctDefaults(CurAttrs) \subseteq {0, 1})
          => (BodyCompleted <=> Cardinality(DistinctDefaults(CurAttrs)) = 1)]_vars

\* C9 amended: behavioral emission proceeds exactly when the model has exactly
\* one non-mode-select SRAM port and its default value prints as one character;
\* otherwise (none, or more than one even with equal defaults, hence also with
\* more than one distinct default) generation aborts.
C9_ProceedsIffOnePlainPort ==
    [][BehavioralCase
          => /\ BodyCompleted
                   <=> /\ Cardinality(PlainSramPorts(CurAttrs)) = 1
                       /\ \A v \in DistinctDefaults(CurAttrs) : v < 10
             /\ BodyCompleted \/ pc' = "aborted"
             /\ Cardinality(DistinctDefaults(CurAttrs)) > 1 => pc' = "aborted"]_vars

C9_Witness ==
    /\ pc = "aborted"
    /\ error = "sram_port_count"
    /\ CurAttrs.dump_structural_verilog = FALSE
    /\ Cardinality(PlainSramPorts(CurAttrs)) = 2
    /\ Cardinality(DistinctDefaults(CurAttrs)) = 1

\* C10: no pass ends, normally or on a fatal condition, with the output stream
\* still open.
C10_StreamReleasedAtEnd == Finished => fp # "open"

\* C11: the netlist is written under the staging name and promoted to the base
\* name only by a successful pass: a completed pass leaves a file under the base
\* name, and a pass that aborted has written no file under the base name.
StagingName == <<muxes_verilog_file_name, ".bak">>

BaseName == <<muxes_verilog_file_name, "">>

C11_PromotedOnlyAfterSuccess ==
    /\ file_names # {} => StagingName \in file_names
    /\ pc = "aborted" => BaseName \notin file_names
    /\ pc = "done" => BaseName \in file_names

\* C12: two runs of the pass on the same MuxLibrary and CircuitLibrary, entered
\* with the same ModuleManager, write the same text and leave the same
\* ModuleManager (compared when the output file could be opened in both runs).
BothRunsFinished ==
    /\ first_run.done = TRUE
    /\ Finished
    /\ error # "file_handler"
    /\ first_run.error # "file_handler"

Emits(attrs, g) ==
    /\ attrs.design_tech_type = "CMOS"
    /\ attrs.tgate_model_type # "GATE"
    /\ ~BadShape(g)

\* the (entry, branch) positions handed to emission so far that write a module
WrittenBranches ==
    {p \in (1..Len(mux_lib)) \X (1..MaxMuxSize) :
        /\ p[2] <= Len(mux_lib[p[1]].branch_graphs)
        /\ p[1] < mux_idx \/ (p[1] = mux_idx /\ p[2] <= branch_idx)
        /\ Emits(circuit_lib[mux_lib[p[1]].circuit_model],
                 mux_lib[p[1]].branch_graphs[p[2]])}

Before(q, p) == q[1] < p[1] \/ (q[1] = p[1] /\ q[2] < p[2])

RankOf(p) == Cardinality({q \in WrittenBranches : Before(q, p)}) + 1

NameOf(p) ==
    generate_verilog_mux_branch_subckt_name(
        mux_lib[p[1]].circuit_model, mux_lib[p[1]].mux_size,
        mux_lib[p[1]].branch_graphs[p[2]].num_inputs)

C13_PreambleThenModules ==
    /\ Len(verilog_file) >= 1 => verilog_file[1].kind = "file_header"
    /\ Len(verilog_file) >= 2 => verilog_file[2].kind = "include_defines"
    /\ \A k \in 3..Len(verilog_file) :
          verilog_file[k].kind \notin {"file_header", "include_defines"}
    /\ Len(verilog_file) >= 3 => verilog_file[3].kind = "module"

C13_LibraryOrder ==
    /\ Len(ModuleTokens) = Cardinality(WrittenBranches)
    /\ \A p \in WrittenBranches : ModuleTokens[RankOf(p)].name = NameOf(p)

C13_StartsAfterTerminator ==
    \A k \in 1..Len(verilog_file) :
        verilog_file[k].kind = "module"
            => verilog_file[k - 1].kind \in {"include_defines", "endmodule"}

C13_DeclarationBodyTerminator ==
    \A k \in 1..Len(verilog_file) :
        verilog_file[k].kind = "module"
            => \E j \in (k + 1)..Len(verilog_file) :
                  /\ verilog_file[j] = [kind |-> "endmodule",
                                        name |-> verilog_file[k].name]
                  /\ \A i \in (k + 1)..(j - 1) :
                        verilog_file[i].kind \notin {"module", "endmodule"}

C13_OutputOrdered ==
    /\ C13_PreambleThenModules
    /\ C13_LibraryOrder
    /\ C13_StartsAfterTerminator
    /\ C13_DeclarationBodyTerminator

\* C14: after structural emission of a branch module its set of child modules
\* is {the pass-gate module} when the branch graph has an edge and is empty when
\* it has none, however many instances were written; the child is recorded for
\* an instance only after that instance was written (the writer of the first
\* instance is called with a parent that has no child yet).
BranchModule == module_manager[find_module(module_manager, ModuleTokens[1].name)]

TgateModuleId == find_module(module_manager, tgate_model_name(CurEntry.circuit_model))

C14_ChildSetAfterStructuralEmission ==
    (OneBranchEmitted /\ CurAttrs.dump_structural_verilog = TRUE)
        => /\ TgateModuleId # INVALID
           /\ BranchModule.children =
                 IF LastGraph.edges = {} THEN {} ELSE {TgateModuleId}
           /\ \A k \in 1..Len(InstanceTokens) :
                 InstanceTokens[k].children_of_parent =
                     IF k = 1 THEN {} ELSE {TgateModuleId}

C14_Witness ==
    /\ OneBranchEmitted
    /\ CurAttrs.dump_structural_verilog = TRUE
    /\ Len(InstanceTokens) = 3
    /\ BranchModule.children = {TgateModuleId}
    /\ InstanceTokens[1].children_of_parent = {}

\* C15: in the behavioural case table of a branch graph the case literals of
\* distinct edges are pairwise distinct, whatever the default value and the
\* polarities of the edges (stated here for the graphs whose edges are under
\* pairwise distinct memory bits).
DistinctMems(g) == \A e1, e2 \in g.edges : e1 # e2 => e1.mem # e2.mem

C15_CaseLiteralsDistinct ==
    (/\ OneBranchEmitted
     /\ CurAttrs.dump_structural_verilog = FALSE
     /\ DistinctMems(LastGraph))
        => \A j, k \in 1..Len(verilog_file) :
              (CaseItemAt(j) /\ CaseItemAt(k) /\ j # k)
                  => verilog_file[j].code # verilog_file[k].code

\* C16: at the end of every pass, completed or aborted, every branch module the
\* pass registered has a complete definition in the output (declaration, body,
\* terminator) and exactly one port each named in, out, mem and mem_inv, and no
\* fatal check has fired after the registration of a module or the writing of
\* its declaration.
RegisteredBranchModules ==
    {i \in 1..Len(module_manager) : module_manager[i].name[1] = "mux_basis"}

HasCompleteDefinition(name) ==
    \E k \in 1..Len(verilog_file) :
        /\ verilog_file[k].kind = "module"
        /\ verilog_file[k].name = name
        /\ \E j \in (k + 1)..Len(verilog_file) :
              /\ verilog_file[j] = [kind |-> "endmodule", name |-> name]
              /\ \A i \in (k + 1)..(j - 1) :
                    verilog_file[i].kind \notin {"module", "endmodule"}

PortCount(m, port_name) ==
    Cardinality({k \in 1..Len(m.ports) : m.ports[k].name = port_name})

ChecksBeforeRegistration ==
    {"file_handler", "design_tech", "gate_type", "num_outputs", "num_levels"}

C16_RegisteredModulesAreComplete ==
    Finished
        => /\ \A i \in RegisteredBranchModules :
                 /\ HasCompleteDefinition(module_manager[i].name)
                 /\ \A n \in {"in", "out", "mem", "mem_inv"} :
                       PortCount(module_manager[i], n) = 1
           /\ pc = "aborted" => error \in ChecksBeforeRegistration

====
